---- MODULE Spec2Model ----
(***************************************************************************)
(* Collision detection and emergency escalation of the rider assistant     *)
(* (src/src/components/CollisionDetection.tsx).                            *)
(*                                                                         *)
(* The component is a React function component.  Its state hooks are       *)
(* modelled as committed values plus queues of pending updates: a setter   *)
(* call only enqueues, and the next render applies the queues in order.    *)
(* Handlers close over the values of the render that created them, so a    *)
(* handler reads the committed activeCrash, never a pending one.  What a   *)
(* click handler or an effect enqueues is rendered before anything else    *)
(* runs (mustFlush); an update enqueued by the interval callback is        *)
(* rendered by a later task, so a click or a new prop can be handled       *)
(* between the callback and its render.  The monitoring effect lists       *)
(* patterns, a new object in every render, among its dependencies, so it   *)
(* runs after every render.                                                *)
(* Time is Date.now() in milliseconds.                                     *)
(*                                                                         *)
(* EmergencySOS (src/unnamed/part_001), the other component with an impact *)
(* detection, is modelled the same way; its state is the record sos.       *)
(***************************************************************************)
EXTENDS Integers, Sequences, FiniteSets, TLC

VARIABLES
    sensorData,       \* prop: Null or <<[acceleration, gyroscope]>>
    locationData,     \* prop: Null or <<[latitude, longitude, speed]>>
    isMonitoring,     \* useState(true)
    impactAnalysis,   \* useState: last analysis shown
    crashHistory,     \* useState<CrashEvent[]>: most recent first
    activeCrash,      \* useState<CrashEvent | null>: Null or <<event>>
    countdown,        \* useState(15)
    showCrashDialog,  \* useState(false)
    lastCrashTime,    \* useRef<number>(0)
    interval,         \* the setInterval behind countdownRef
    pending,          \* state updates enqueued and not yet rendered
    mustFlush,        \* TRUE while React must render before any other event
    now,              \* Date.now()
    lastOp,           \* observation: the operation of the last step
    fx,               \* observation: side effects emitted by the last step
    dispatched,       \* observation: the event of each onEmergencyTrigger call
    reports,          \* observation: every crash report built so far
    constructed,      \* observation: id of every CrashEvent constructed
    sos,              \* EmergencySOS: its props, hooks, timers and effects
    probe             \* a function of the component applied on its own:
                      \* its name, its argument and its result

vars == <<sensorData, locationData, isMonitoring, impactAnalysis, crashHistory,
          activeCrash, countdown, showCrashDialog, lastCrashTime, interval,
          pending, mustFlush, now, lastOp, fx, dispatched, reports,
          constructed, sos, probe>>

-----------------------------------------------------------------------------
(* Bounds of the model *)

StartTime == 1000000    \* Date.now() when the component mounts
Horizon == 32000        \* the clock stops this long after the mount
MaxTime == StartTime + Horizon
ReportInstants == 5     \* instants, after the mount, of the events reported
SosHorizon == 12000     \* the clock of EmergencySOS stops this long after

(* Program constants *)

THRESHOLDS == [minor |-> 15, moderate |-> 25, severe |-> 40, critical |-> 60]
COOLDOWN == 30000
TickMs == 1000
CriticalCountdown == 10
DefaultCountdown == 15
MaxHistory == 20
SosThreshold == 30
SosDelay == 10000
SosCountdown == 5
SpeedFactor == 36     \* speed * 3.6: tenths of m/s in, hundredths of km/h out

Null == <<>>
Some(v) == <<v>>

Min(a, b) == IF a <= b THEN a ELSE b
Abs(v) == IF v < 0 THEN -v ELSE v
Max3(a, b, c) == IF a >= b /\ a >= c THEN a ELSE IF b >= c THEN b ELSE c
Take(s, n) == SubSeq(s, 1, Min(n, Len(s)))
Range(s) == {s[i] : i \in 1..Len(s)}
Count(s, v) == Cardinality({i \in 1..Len(s) : s[i] = v})

-----------------------------------------------------------------------------
(* Inputs *)

Acc(x, y, z) == [x |-> x, y |-> y, z |-> z]
Gyro(a, b, g) == [alpha |-> a, beta |-> b, gamma |-> g]

Samples ==
    { [acceleration |-> Acc(0, 0, 10),  gyroscope |-> Gyro(0, 0, 0)],     \* rest
      [acceleration |-> Acc(9, 12, 0),  gyroscope |-> Gyro(0, 0, 0)],     \* 15
      [acceleration |-> Acc(0, -30, 0), gyroscope |-> Gyro(30, 40, 0)],   \* 30
      [acceleration |-> Acc(-40, 0, 0), gyroscope |-> Gyro(0, 0, 0)],     \* 40
      [acceleration |-> Acc(0, 0, 60),  gyroscope |-> Gyro(0, 0, 0)] }    \* 60

(* latitude and longitude in units of 0.0000001 degree, speed in tenths of  *)
(* m/s                                                                      *)
Locations ==
    { Null,
      Some([latitude |-> 123456784, longitude |-> -76543218,
            speed |-> Some(103)]),
      Some([latitude |-> 123456787, longitude |-> -76543213, speed |-> Null]),
      Some([latitude |-> -3, longitude |-> 1800000000, speed |-> Some(31)]),
      Some([latitude |-> 0, longitude |-> 0, speed |-> Some(0)]) }

-----------------------------------------------------------------------------
(* analyzeImpact.  Math.sqrt is monotone and exact on perfect squares, so a *)
(* magnitude is kept as its square and compared with the squared threshold. *)

DirectionNoneAtRest(accel) ==
    LET maxAxis == Max3(Abs(accel.x), Abs(accel.y), Abs(accel.z))
    IN  IF maxAxis = 0 THEN "None"
        ELSE IF maxAxis = Abs(accel.x)
             THEN (IF accel.x > 0 THEN "Right" ELSE "Left")
             ELSE IF maxAxis = Abs(accel.y)
                  THEN (IF accel.y > 0 THEN "Forward" ELSE "Backward")
                  ELSE (IF accel.z > 0 THEN "Upward" ELSE "Downward")

DirectionLastOnTie(accel) ==
    LET maxAxis == Max3(Abs(accel.x), Abs(accel.y), Abs(accel.z))
    IN  IF maxAxis = Abs(accel.z) THEN (IF accel.z > 0 THEN "Upward" ELSE "Downward")
        ELSE IF maxAxis = Abs(accel.y)
             THEN (IF accel.y > 0 THEN "Forward" ELSE "Backward")
             ELSE (IF accel.x > 0 THEN "Right" ELSE "Left")

DirectionNoneOnTie(accel) ==
    LET maxAxis == Max3(Abs(accel.x), Abs(accel.y), Abs(accel.z))
    IN  IF Cardinality({a \in {"x", "y", "z"} : Abs(accel[a]) = maxAxis}) > 1
        THEN "None"
        ELSE IF maxAxis = Abs(accel.x)
             THEN (IF accel.x > 0 THEN "Right" ELSE "Left")
             ELSE IF maxAxis = Abs(accel.y)
                  THEN (IF accel.y > 0 THEN "Forward" ELSE "Backward")
                  ELSE (IF accel.z > 0 THEN "Upward" ELSE "Downward")

Direction(accel) ==
    LET maxAxis == Max3(Abs(accel.x), Abs(accel.y), Abs(accel.z))
    IN  IF maxAxis = Abs(accel.x) THEN (IF accel.x > 0 THEN "Right" ELSE "Left")
        ELSE IF maxAxis = Abs(accel.y)
             THEN (IF accel.y > 0 THEN "Forward" ELSE "Backward")
             ELSE (IF accel.z > 0 THEN "Upward" ELSE "Downward")

SeverityExclusive(gForceSq) ==
    IF gForceSq > THRESHOLDS.critical * THRESHOLDS.critical THEN "critical"
    ELSE IF gForceSq > THRESHOLDS.severe * THRESHOLDS.severe THEN "severe"
    ELSE IF gForceSq > THRESHOLDS.moderate * THRESHOLDS.moderate THEN "moderate"
    ELSE IF gForceSq > THRESHOLDS.minor * THRESHOLDS.minor THEN "minor"
    ELSE "safe"

Severity(gForceSq) ==
    IF gForceSq >= THRESHOLDS.critical * THRESHOLDS.critical THEN "critical"
    ELSE IF gForceSq >= THRESHOLDS.severe * THRESHOLDS.severe THEN "severe"
    ELSE IF gForceSq >= THRESHOLDS.moderate * THRESHOLDS.moderate THEN "moderate"
    ELSE IF gForceSq >= THRESHOLDS.minor * THRESHOLDS.minor THEN "minor"
    ELSE "safe"

(* Math.sqrt, by the whole numbers next to it: equal when n is a square *)
FloorSqrt(n) ==
    LET tens == CHOOSE a \in 0..n : 100 * (a + 1) * (a + 1) > n
    IN  CHOOSE k \in (10 * tens)..(10 * tens + 9) :
            k * k <= n /\ (k + 1) * (k + 1) > n
CeilSqrt(n) == LET k == FloorSqrt(n) IN IF k * k = n THEN k ELSE k + 1

(* The confidence, in tenths: (gForce / 10) * 20 + (rotationRate / 100) * 30 *)
(* is 20 tenths for each unit of gForce and 3 for each of rotationRate.  It  *)
(* is kept as the tenths it lies between, low and high, which are equal      *)
(* when both magnitudes are whole numbers.                                   *)
ConfidenceCap == 1000

ConfidenceUncapped(gForceSq, rotationSq) ==
    LET g == FloorSqrt(gForceSq)
        r == FloorSqrt(rotationSq)
        up == (IF g * g = gForceSq THEN 0 ELSE 20)
              + (IF r * r = rotationSq THEN 0 ELSE 3)
    IN  [low |-> 20 * g + 3 * r, high |-> 20 * g + 3 * r + up]

Confidence(gForceSq, rotationSq) ==
    LET g == FloorSqrt(gForceSq)
        r == FloorSqrt(rotationSq)
        up == (IF g * g = gForceSq THEN 0 ELSE 20)
              + (IF r * r = rotationSq THEN 0 ELSE 3)
    IN  [low |-> Min(ConfidenceCap, 20 * g + 3 * r),
         high |-> Min(ConfidenceCap, 20 * g + 3 * r + up)]

analyzeImpact(accel, gyro) ==
    LET gForceSq == accel.x * accel.x + accel.y * accel.y + accel.z * accel.z
        rotationSq == gyro.alpha * gyro.alpha + gyro.beta * gyro.beta
                      + gyro.gamma * gyro.gamma
    IN  [gForceSq |-> gForceSq, rotationSq |-> rotationSq,
         impactDirection |-> Direction(accel), severity |-> Severity(gForceSq),
         confidence |-> Confidence(gForceSq, rotationSq)]

(* The square of the magnitude of the acceleration of a reading *)
MagnitudeSq(r) ==
    r.acceleration.x * r.acceleration.x + r.acceleration.y * r.acceleration.y
    + r.acceleration.z * r.acceleration.z

SampleSeverity(sd) ==
    analyzeImpact(sd[1].acceleration, sd[1].gyroscope).severity

InitialAnalysis ==
    [gForceSq |-> 0, rotationSq |-> 0, impactDirection |-> "None",
     severity |-> "safe", confidence |-> [low |-> 0, high |-> 0]]

-----------------------------------------------------------------------------
(* The component as one record, so that handlers compose *)

EmptyPending ==
    [history |-> <<>>, activeCrash |-> <<>>, show |-> <<>>, countdown |-> <<>>,
     monitoring |-> <<>>]

NoInterval == [live |-> FALSE, due |-> 0, crash |-> Null]

NoProbe == [fn |-> "none", input |-> Null, output |-> Null]

NoFx ==
    [haptic |-> <<>>, voice |-> <<>>, toast |-> <<>>, dispatch |-> 0,
     reports |-> 0, constructed |-> FALSE, suppressed |-> FALSE]

World ==
    [sensorData |-> sensorData, locationData |-> locationData,
     isMonitoring |-> isMonitoring, impactAnalysis |-> impactAnalysis,
     crashHistory |-> crashHistory, activeCrash |-> activeCrash,
     countdown |-> countdown, showCrashDialog |-> showCrashDialog,
     lastCrashTime |-> lastCrashTime, interval |-> interval,
     pending |-> pending, mustFlush |-> mustFlush, now |-> now,
     lastOp |-> lastOp, fx |-> fx, dispatched |-> dispatched,
     reports |-> reports, constructed |-> constructed]

Commit(w) ==
    /\ sensorData' = w.sensorData
    /\ locationData' = w.locationData
    /\ isMonitoring' = w.isMonitoring
    /\ impactAnalysis' = w.impactAnalysis
    /\ crashHistory' = w.crashHistory
    /\ activeCrash' = w.activeCrash
    /\ countdown' = w.countdown
    /\ showCrashDialog' = w.showCrashDialog
    /\ lastCrashTime' = w.lastCrashTime
    /\ interval' = w.interval
    /\ pending' = w.pending
    /\ mustFlush' = w.mustFlush
    /\ now' = w.now
    /\ lastOp' = w.lastOp
    /\ fx' = w.fx
    /\ dispatched' = w.dispatched
    /\ reports' = w.reports
    /\ constructed' = w.constructed
    /\ sos' = sos
    /\ probe' = probe

Begin(op) == [World EXCEPT !.lastOp = op, !.fx = NoFx]

(* State setters enqueue; side effects are recorded *)

setCrashHistory(w, e) == [w EXCEPT !.pending.history = Append(@, e)]
setActiveCrash(w, v) == [w EXCEPT !.pending.activeCrash = Append(@, v)]
setShowCrashDialog(w, b) == [w EXCEPT !.pending.show = Append(@, b)]
setCountdown(w, n) ==
    [w EXCEPT !.pending.countdown =
                  Append(@, [kind |-> "set", value |-> n, crash |-> Null])]
setCountdownUpdater(w, crash) ==
    [w EXCEPT !.pending.countdown =
                  Append(@, [kind |-> "updater", value |-> 0, crash |-> crash])]
setIsMonitoring(w, b) == [w EXCEPT !.pending.monitoring = Append(@, b)]

vibrate(w, pattern) == [w EXCEPT !.fx.haptic = Append(@, pattern)]
speak(w, msg) == [w EXCEPT !.fx.voice = Append(@, msg)]
toast(w, msg) == [w EXCEPT !.fx.toast = Append(@, msg)]
clearInterval(w) == [w EXCEPT !.interval = NoInterval]

(* Every call is counted in fx; dispatched keeps the calls made for an event *)
onEmergencyTrigger(w, crash) ==
    [w EXCEPT !.fx.dispatch = @ + 1,
              !.dispatched = IF crash = Null THEN @ ELSE Append(@, crash[1].id)]

-----------------------------------------------------------------------------
(* generateCrashReport.  A text is a record that tells what it prints:      *)
(* "Unknown", a speed with one decimal (in tenths of km/h), or a latitude   *)
(* and a longitude with six decimals (in millionths of a degree).  The map  *)
(* link prints the two numbers as they are.                                 *)

Unknown == [text |-> "Unknown"]

(* Number.prototype.toFixed(6) of a value held in units of 0.0000001 *)
ToFixed6(v) ==
    LET n == (Abs(v) + 5) \div 10
    IN  IF v < 0 THEN -n ELSE n

(* Number.prototype.toFixed(1) of a value held in hundredths, not negative *)
ToFixed1(v) == (v + 5) \div 10

generateCrashReportRoundedLink(crash) ==
    [reportId |-> crash.id,
     severity |-> crash.type,
     gForceSq |-> crash.gForceSq,
     speedAtImpact |-> IF crash.speed # Null
                       THEN [text |-> "toFixed(1)",
                             tenths |-> ToFixed1(crash.speed[1])]
                       ELSE Unknown,
     gyroscope |-> crash.gyroData,
     location |-> IF crash.location # Null
                  THEN [text |-> "lat, lng",
                        lat |-> ToFixed6(crash.location[1].lat),
                        lng |-> ToFixed6(crash.location[1].lng)]
                  ELSE Unknown,
     mapsLink |-> IF crash.location # Null
                  THEN Some([url |-> "https://maps.google.com/?q=",
                             lat |-> ToFixed6(crash.location[1].lat) * 10,
                             lng |-> ToFixed6(crash.location[1].lng) * 10])
                  ELSE Null]

generateCrashReport(crash) ==
    [reportId |-> crash.id,
     severity |-> crash.type,
     gForceSq |-> crash.gForceSq,
     speedAtImpact |-> IF crash.speed # Null
                       THEN [text |-> "toFixed(1)",
                             tenths |-> ToFixed1(crash.speed[1])]
                       ELSE Unknown,
     gyroscope |-> crash.gyroData,
     location |-> IF crash.location # Null
                  THEN [text |-> "lat, lng",
                        lat |-> ToFixed6(crash.location[1].lat),
                        lng |-> ToFixed6(crash.location[1].lng)]
                  ELSE Unknown,
     mapsLink |-> IF crash.location # Null
                  THEN Some([url |-> "https://maps.google.com/?q=",
                             lat |-> crash.location[1].lat,
                             lng |-> crash.location[1].lng])
                  ELSE Null]

report(w, crash) ==
    [w EXCEPT !.fx.reports = @ + 1,
              !.reports = Append(@, generateCrashReport(crash))]

-----------------------------------------------------------------------------
(* The handlers.  crash is the activeCrash the handler closed over. *)

triggerEmergency(w, crash) ==
    LET w1 == clearInterval(w)
        reportedCrash == [crash[1] EXCEPT !.reported = TRUE]
        w2 == IF crash # Null
              THEN toast(speak(report(setCrashHistory(w1, reportedCrash),
                                      reportedCrash),
                               [text |-> "help is on the way", severity |-> "",
                                seconds |-> 0]),
                         "Emergency Alert Sent")
              ELSE w1
    IN  setActiveCrash(setShowCrashDialog(onEmergencyTrigger(w2, crash), FALSE),
                       Null)

cancelAlertWithoutLog(w, crash) ==
    LET w1 == vibrate(clearInterval(w), "stop")
        w3 == toast(speak(w1, [text |-> "alert cancelled", severity |-> "",
                               seconds |-> 0]),
                    "Alert Cancelled")
    IN  setCountdown(setActiveCrash(setShowCrashDialog(w3, FALSE), Null),
                     DefaultCountdown)

cancelAlert(w, crash) ==
    LET w1 == vibrate(clearInterval(w), "stop")
        w2 == IF crash # Null
              THEN setCrashHistory(w1, [crash[1] EXCEPT !.reported = FALSE])
              ELSE w1
        w3 == toast(speak(w2, [text |-> "alert cancelled", severity |-> "",
                               seconds |-> 0]),
                    "Alert Cancelled")
    IN  setCountdown(setActiveCrash(setShowCrashDialog(w3, FALSE), Null),
                     DefaultCountdown)

(* The updater with the trigger one tick late *)
countdownUpdaterTriggerLate(w, prev, crash) ==
    IF prev <= 0
    THEN [w |-> triggerEmergency(w, crash), value |-> 0]
    ELSE [w |-> IF prev <= 5 THEN vibrate(w, "danger") ELSE w,
          value |-> prev - 1]

(* The updater with the trigger one tick early *)
countdownUpdaterTriggerEarly(w, prev, crash) ==
    IF prev <= 2
    THEN [w |-> triggerEmergency(w, crash), value |-> 0]
    ELSE [w |-> IF prev <= 5 THEN vibrate(w, "danger") ELSE w,
          value |-> prev - 1]

(* The updater the interval callback hands to setCountdown *)
countdownUpdater(w, prev, crash) ==
    IF prev <= 1
    THEN [w |-> triggerEmergency(w, crash), value |-> 0]
    ELSE [w |-> IF prev <= 5 THEN vibrate(w, "danger") ELSE w,
          value |-> prev - 1]

-----------------------------------------------------------------------------
(* The collision monitoring effect *)

CrashTypeWithoutMerge(severity) == severity

CrashType(severity) ==
    IF severity = "critical" \/ severity = "severe" THEN "severe"
    ELSE IF severity = "moderate" THEN "moderate" ELSE "minor"

EscalatesFromMinor(severity) == severity # "safe"

Escalates(severity) ==
    severity = "moderate" \/ severity = "severe" \/ severity = "critical"

(* A countdown that outlasts the cooldown *)
InitialCountdownBeyondCooldown(severity) == COOLDOWN \div TickMs + 1

InitialCountdownAlwaysDefault(severity) == DefaultCountdown

InitialCountdown(severity) ==
    IF severity = "critical" THEN CriticalCountdown ELSE DefaultCountdown

(* The seconds the spoken warning announces *)
SpokenCountdownAlwaysDefault(severity) == DefaultCountdown

SpokenCountdown(severity) ==
    IF severity = "critical" THEN CriticalCountdown ELSE DefaultCountdown

DetectsSafeSamples(w, analysis) ==
    /\ w.now - w.lastCrashTime > COOLDOWN
    /\ w.activeCrash = Null

DetectsWithoutCooldown(w, analysis) ==
    /\ analysis.severity # "safe"
    /\ w.activeCrash = Null

DetectsWithoutSessionGuard(w, analysis) ==
    /\ analysis.severity # "safe"
    /\ w.now - w.lastCrashTime > COOLDOWN

DetectsAtCooldownEnd(w, analysis) ==
    /\ analysis.severity # "safe"
    /\ w.now - w.lastCrashTime >= COOLDOWN
    /\ w.activeCrash = Null

Detects(w, analysis) ==
    /\ analysis.severity # "safe"
    /\ w.now - w.lastCrashTime > COOLDOWN
    /\ w.activeCrash = Null

(* The event with the speed kept whenever the snapshot has one *)
NewCrashEventKeepingZeroSpeed(w, analysis) ==
    [id |-> w.now,
     timestamp |-> w.now,
     gForceSq |-> analysis.gForceSq,
     type |-> CrashType(analysis.severity),
     location |-> IF w.locationData # Null
                  THEN Some([lat |-> w.locationData[1].latitude,
                             lng |-> w.locationData[1].longitude])
                  ELSE Null,
     speed |-> IF w.locationData # Null /\ w.locationData[1].speed # Null
               THEN Some(w.locationData[1].speed[1] * SpeedFactor)
               ELSE Null,
     gyroData |-> w.sensorData[1].gyroscope,
     reported |-> FALSE]

NewCrashEvent(w, analysis) ==
    [id |-> w.now,
     timestamp |-> w.now,
     gForceSq |-> analysis.gForceSq,
     type |-> CrashType(analysis.severity),
     location |-> IF w.locationData # Null
                  THEN Some([lat |-> w.locationData[1].latitude,
                             lng |-> w.locationData[1].longitude])
                  ELSE Null,
     speed |-> IF w.locationData # Null /\ w.locationData[1].speed # Null
                  /\ w.locationData[1].speed[1] # 0
               THEN Some(w.locationData[1].speed[1] * SpeedFactor)
               ELSE Null,
     gyroData |-> w.sensorData[1].gyroscope,
     reported |-> FALSE]

(* The effect with the cooldown started by escalated detections only *)
monitorEffectCooldownOnEscalation(w) ==
    IF w.sensorData = Null \/ ~w.isMonitoring THEN w
    ELSE
      LET analysis == analyzeImpact(w.sensorData[1].acceleration,
                                    w.sensorData[1].gyroscope)
          w1 == [w EXCEPT !.impactAnalysis = analysis]
      IN  IF Detects(w1, analysis)
          THEN
            LET crashEvent == NewCrashEvent(w1, analysis)
                w2 == [w1 EXCEPT !.constructed = Append(@, w.now),
                                 !.fx.constructed = TRUE]
                w3 == [w2 EXCEPT !.lastCrashTime = w.now]
            IN  IF Escalates(analysis.severity)
                THEN toast(speak(vibrate(
                         setCountdown(setShowCrashDialog(
                             setActiveCrash(w3, Some(crashEvent)), TRUE),
                             InitialCountdown(analysis.severity)),
                         "collision"),
                         [text |-> "warning", severity |-> analysis.severity,
                          seconds |-> SpokenCountdown(analysis.severity)]),
                         "Impact Detected")
                ELSE toast(vibrate(setCrashHistory(w2, crashEvent), "warning"),
                           "Minor bump detected")
          ELSE IF analysis.severity # "safe"
               THEN [w1 EXCEPT !.fx.suppressed = TRUE]
               ELSE w1

(* The effect with a suppressed sample restarting the cooldown *)
monitorEffectExtendingCooldown(w) ==
    IF w.sensorData = Null \/ ~w.isMonitoring THEN w
    ELSE
      LET analysis == analyzeImpact(w.sensorData[1].acceleration,
                                    w.sensorData[1].gyroscope)
          w1 == [w EXCEPT !.impactAnalysis = analysis]
      IN  IF Detects(w1, analysis)
          THEN
            LET crashEvent == NewCrashEvent(w1, analysis)
                w2 == [w1 EXCEPT !.lastCrashTime = w.now,
                                 !.constructed = Append(@, w.now),
                                 !.fx.constructed = TRUE]
            IN  IF Escalates(analysis.severity)
                THEN toast(speak(vibrate(
                         setCountdown(setShowCrashDialog(
                             setActiveCrash(w2, Some(crashEvent)), TRUE),
                             InitialCountdown(analysis.severity)),
                         "collision"),
                         [text |-> "warning", severity |-> analysis.severity,
                          seconds |-> SpokenCountdown(analysis.severity)]),
                         "Impact Detected")
                ELSE toast(vibrate(setCrashHistory(w2, crashEvent), "warning"),
                           "Minor bump detected")
          ELSE IF analysis.severity # "safe"
               THEN [w1 EXCEPT !.fx.suppressed = TRUE,
                               !.lastCrashTime = w.now]
               ELSE w1

(* The effect running whether monitoring is on or not *)
monitorEffectWhilePaused(w) ==
    IF w.sensorData = Null THEN w
    ELSE
      LET analysis == analyzeImpact(w.sensorData[1].acceleration,
                                    w.sensorData[1].gyroscope)
          w1 == [w EXCEPT !.impactAnalysis = analysis]
      IN  IF Detects(w1, analysis)
          THEN
            LET crashEvent == NewCrashEvent(w1, analysis)
                w2 == [w1 EXCEPT !.lastCrashTime = w.now,
                                 !.constructed = Append(@, w.now),
                                 !.fx.constructed = TRUE]
            IN  IF Escalates(analysis.severity)
                THEN toast(speak(vibrate(
                         setCountdown(setShowCrashDialog(
                             setActiveCrash(w2, Some(crashEvent)), TRUE),
                             InitialCountdown(analysis.severity)),
                         "collision"),
                         [text |-> "warning", severity |-> analysis.severity,
                          seconds |-> SpokenCountdown(analysis.severity)]),
                         "Impact Detected")
                ELSE toast(vibrate(setCrashHistory(w2, crashEvent), "warning"),
                           "Minor bump detected")
          ELSE IF analysis.severity # "safe"
               THEN [w1 EXCEPT !.fx.suppressed = TRUE]
               ELSE w1

monitorEffect(w) ==
    IF w.sensorData = Null \/ ~w.isMonitoring THEN w
    ELSE
      LET analysis == analyzeImpact(w.sensorData[1].acceleration,
                                    w.sensorData[1].gyroscope)
          w1 == [w EXCEPT !.impactAnalysis = analysis]
      IN  IF Detects(w1, analysis)
          THEN
            LET crashEvent == NewCrashEvent(w1, analysis)
                w2 == [w1 EXCEPT !.lastCrashTime = w.now,
                                 !.constructed = Append(@, w.now),
                                 !.fx.constructed = TRUE]
            IN  IF Escalates(analysis.severity)
                THEN toast(speak(vibrate(
                         setCountdown(setShowCrashDialog(
                             setActiveCrash(w2, Some(crashEvent)), TRUE),
                             InitialCountdown(analysis.severity)),
                         "collision"),
                         [text |-> "warning", severity |-> analysis.severity,
                          seconds |-> SpokenCountdown(analysis.severity)]),
                         "Impact Detected")
                ELSE toast(vibrate(setCrashHistory(w2, crashEvent), "warning"),
                           "Minor bump detected")
          ELSE IF analysis.severity # "safe"
               THEN [w1 EXCEPT !.fx.suppressed = TRUE]
               ELSE w1

(* The countdown timer effect, run when showCrashDialog or activeCrash changed *)
countdownEffectWithoutInterval(w) == clearInterval(w)

countdownEffect(w) ==
    LET w1 == clearInterval(w)
    IN  IF w.showCrashDialog /\ w.activeCrash # Null
        THEN [w1 EXCEPT !.interval = [live |-> TRUE, due |-> w.now + TickMs,
                                      crash |-> w.activeCrash]]
        ELSE w1

-----------------------------------------------------------------------------
(* A render: the queued updates are applied hook by hook, in order.  An     *)
(* updater still in the countdown queue runs now, and what it enqueues is   *)
(* applied by the same render.                                              *)

(* prev => [event, ...prev].slice(0, 20) *)
pushHistoryKeepingOneMore(prev, event) == Take(<<event>> \o prev, MaxHistory + 1)

pushHistoryReplacingHead(prev, event) ==
    Take(<<event>> \o (IF prev = <<>> THEN prev ELSE Tail(prev)), MaxHistory)

pushHistory(prev, event) == Take(<<event>> \o prev, MaxHistory)

RECURSIVE Prepend(_, _)
Prepend(history, queue) ==
    IF queue = <<>> THEN history
    ELSE Prepend(pushHistory(history, Head(queue)), Tail(queue))

LastOr(queue, value) == IF queue = <<>> THEN value ELSE queue[Len(queue)]

ApplyPlain(w, p) ==
    [w EXCEPT !.crashHistory = Prepend(@, p.history),
              !.activeCrash = LastOr(p.activeCrash, @),
              !.showCrashDialog = LastOr(p.show, @),
              !.isMonitoring = LastOr(p.monitoring, @)]

RECURSIVE ApplyCountdown(_, _)
ApplyCountdown(w, queue) ==
    IF queue = <<>> THEN w
    ELSE LET u == Head(queue)
             r == countdownUpdater(w, w.countdown, u.crash)
         IN  IF u.kind = "set"
             THEN ApplyCountdown([w EXCEPT !.countdown = u.value], Tail(queue))
             ELSE ApplyCountdown([r.w EXCEPT !.countdown = r.value], Tail(queue))

processQueues(w) ==
    LET p == w.pending
        w1 == ApplyPlain([w EXCEPT !.pending = EmptyPending], p)
        w2 == ApplyCountdown(w1, p.countdown)
    IN  ApplyPlain([w2 EXCEPT !.pending = EmptyPending], w2.pending)

runEffects(w, before) ==
    LET w1 == monitorEffect(w)
    IN  IF w.showCrashDialog # before.showCrashDialog
           \/ w.activeCrash # before.activeCrash
        THEN countdownEffect(w1)
        ELSE w1

render(w) ==
    LET w1 == runEffects(processQueues(w), w)
    IN  [w1 EXCEPT !.mustFlush = (w1.pending # EmptyPending)]

handled(w) == [w EXCEPT !.mustFlush = TRUE]

-----------------------------------------------------------------------------
(* The state after the first render *)

(* EmergencySOS after its first render *)

SosNoPending ==
    [isActivating |-> <<>>, sosActive |-> <<>>, crashDetected |-> <<>>,
     countdown |-> <<>>]

SosNoFx == [haptic |-> <<>>, voice |-> <<>>, toast |-> <<>>]

NoTimeout == [live |-> FALSE, due |-> 0, crashDetected |-> FALSE]

NoCountdownRef == [live |-> FALSE, due |-> 0]

SosMounted ==
    [sensorData |-> Null,
     isActivating |-> FALSE,
     sosActive |-> FALSE,
     countdown |-> SosCountdown,
     crashDetected |-> FALSE,
     countdownRef |-> NoCountdownRef,
     timeout |-> NoTimeout,
     pending |-> SosNoPending,
     mustFlush |-> FALSE,
     now |-> StartTime,
     detectedAt |-> 0,        \* observation: when crashDetected was last set
     startedAt |-> 0,         \* observation: when the countdown last started
     lastOp |-> "init",
     fx |-> SosNoFx]

(* CollisionDetection after its first render *)

Mounted ==
    /\ sensorData = Null
    /\ locationData = Null
    /\ isMonitoring = TRUE
    /\ impactAnalysis = InitialAnalysis
    /\ crashHistory = <<>>
    /\ activeCrash = Null
    /\ countdown = DefaultCountdown
    /\ showCrashDialog = FALSE
    /\ lastCrashTime = 0
    /\ interval = NoInterval
    /\ pending = EmptyPending
    /\ mustFlush = FALSE
    /\ now = StartTime
    /\ lastOp = "init"
    /\ fx = NoFx
    /\ dispatched = <<>>
    /\ reports = <<>>
    /\ constructed = <<>>

componentVars ==
    <<sensorData, locationData, isMonitoring, impactAnalysis, crashHistory,
      activeCrash, countdown, showCrashDialog, lastCrashTime, interval,
      pending, mustFlush, now, lastOp, fx, dispatched, reports, constructed>>

Init ==
    /\ Mounted
    /\ sos = SosMounted
    /\ probe = NoProbe

(* A new sensorData prop, or the same one seen by another render *)
Sample(s) ==
    /\ ~mustFlush
    /\ Commit(render([Begin("sample") EXCEPT !.sensorData = Some(s)]))

(* A new locationData prop (not part of Next: Spec keeps locationData unset) *)
Locate(l) ==
    /\ ~mustFlush
    /\ l # locationData
    /\ Commit(render([Begin("locate") EXCEPT !.locationData = l]))

(* The monitoring button *)
ToggleMonitoring ==
    /\ ~mustFlush
    /\ Commit(handled(setIsMonitoring(Begin("toggle"), ~isMonitoring)))

(* The clock moves: to the instant the interval is due, straight to the end *)
(* of the cooldown (the interval may fire late), or by one timer period     *)
(* once the cooldown is over.  Before the first detection nothing reads the *)
(* clock.  A queued update is rendered before a whole period has passed.    *)
AdvanceTargets ==
    {t \in {now + TickMs, lastCrashTime + COOLDOWN} :
        /\ t > now
        /\ t <= MaxTime
        /\ t = now + TickMs =>
              \/ interval.live /\ now < interval.due
              \/ now >= lastCrashTime + COOLDOWN}

Advance(t) ==
    /\ ~mustFlush
    /\ pending = EmptyPending
    /\ lastCrashTime # 0
    /\ Commit([Begin("advance") EXCEPT !.now = t])

(* The interval callback: setCountdown(updater).  React runs the updater at *)
(* once when the component has no other update queued, else in the render.  *)
Tick ==
    /\ ~mustFlush
    /\ interval.live
    /\ now >= interval.due
    /\ \E eager \in BOOLEAN :
         LET w == [Begin("tick") EXCEPT !.interval.due = now + TickMs]
             r == countdownUpdater(w, w.countdown, w.interval.crash)
         IN  /\ eager => pending = EmptyPending
             /\ Commit(IF eager THEN setCountdown(r.w, r.value)
                       ELSE setCountdownUpdater(w, w.interval.crash))

(* React renders what is queued *)
Render ==
    /\ pending # EmptyPending
    /\ Commit(render(Begin("render")))

(* The two buttons of the crash dialog *)
CancelClick ==
    /\ ~mustFlush
    /\ Commit(handled(cancelAlert(Begin("cancel"), activeCrash)))

TriggerClick ==
    /\ ~mustFlush
    /\ Commit(handled(triggerEmergency(Begin("trigger"), activeCrash)))

Next ==
    \/ \E s \in Samples : Sample(s)
    \/ ToggleMonitoring
    \/ \E t \in AdvanceTargets : Advance(t)
    \/ Tick
    \/ Render
    \/ CancelClick
    \/ TriggerClick

Spec == Init /\ [][Next]_vars

(* The component with its timer and its renders served, for one session.    *)
(* The clock moves to the instant the interval is due and no further, so    *)
(* the session that started with the first detection runs to its end.       *)
TimerDue ==
    /\ ~mustFlush
    /\ pending = EmptyPending
    /\ interval.live
    /\ now < interval.due
    /\ Commit([Begin("due") EXCEPT !.now = interval.due])

NextFair ==
    \/ \E s \in Samples : Sample(s)
    \/ ToggleMonitoring
    \/ TimerDue
    \/ Tick
    \/ Render
    \/ CancelClick
    \/ TriggerClick

(* The steps that are served, told by their guard and by their mark in      *)
(* lastOp.  Time passes and the browser runs the callback of a due interval *)
(* however often the rider taps in between (strong fairness); React renders *)
(* what is queued until nothing is left.                                    *)
TimerDueStep ==
    /\ ~mustFlush
    /\ pending = EmptyPending
    /\ interval.live
    /\ now < interval.due
    /\ lastOp' = "due"

TickStep ==
    /\ ~mustFlush
    /\ interval.live
    /\ now >= interval.due
    /\ lastOp' = "tick"

RenderStep ==
    /\ pending # EmptyPending
    /\ lastOp' = "render"
    /\ pending' = EmptyPending

SpecFair ==
    /\ Init
    /\ [][NextFair]_vars
    /\ SF_lastOp(TimerDueStep)
    /\ SF_lastOp(TickStep)
    /\ WF_<<lastOp, pending>>(RenderStep)

(* The same component later in a ride: minor bumps, each logged one second  *)
(* after the cooldown of the one before, have nearly or exactly filled the  *)
(* log, and the last of them has just been logged.                          *)
PastBump(i) ==
    [id |-> StartTime - (i - 1) * (COOLDOWN + TickMs),
     timestamp |-> StartTime - (i - 1) * (COOLDOWN + TickMs),
     gForceSq |-> THRESHOLDS.minor * THRESHOLDS.minor,
     type |-> "minor", location |-> Null, speed |-> Null,
     gyroData |-> Gyro(0, 0, 0), reported |-> FALSE]

PastLog(k) == [i \in 1..k |-> PastBump(i)]

InitLog ==
    /\ sensorData = Some([acceleration |-> Acc(9, 12, 0),
                          gyroscope |-> Gyro(0, 0, 0)])
    /\ locationData = Null
    /\ isMonitoring = TRUE
    /\ impactAnalysis = analyzeImpact(Acc(9, 12, 0), Gyro(0, 0, 0))
    /\ crashHistory \in {PastLog(MaxHistory - 1), PastLog(MaxHistory)}
    /\ activeCrash = Null
    /\ countdown = DefaultCountdown
    /\ showCrashDialog = FALSE
    /\ lastCrashTime = StartTime
    /\ interval = NoInterval
    /\ pending = EmptyPending
    /\ mustFlush = FALSE
    /\ now = StartTime
    /\ lastOp = "init"
    /\ fx = NoFx
    /\ dispatched = <<>>
    /\ reports = <<>>
    /\ constructed = [i \in 1..Len(crashHistory) |->
                         PastBump(Len(crashHistory) + 1 - i).id]
    /\ sos = SosMounted
    /\ probe = NoProbe

SpecLog == InitLog /\ [][Next]_vars

-----------------------------------------------------------------------------
(* EmergencySOS.  The record sos holds the sensorData prop, the state hooks *)
(* (committed values, and pending the updates queued for the next render),  *)
(* the interval behind countdownRef, and the timeout the crash detection    *)
(* effect sets, with the crashDetected its callback closed over.            *)

SosSamples == {Acc(0, 0, 10), Acc(0, -30, 0), Acc(18, 24, 1), Acc(-40, 0, 0)}

SosTimers == {"timeout", "interval"}

setIsActivating(w, b) == [w EXCEPT !.pending.isActivating = Append(@, b)]
setSosActive(w, b) == [w EXCEPT !.pending.sosActive = Append(@, b)]
setCrashDetected(w, b) == [w EXCEPT !.pending.crashDetected = Append(@, b)]
setSosCountdown(w, n) ==
    [w EXCEPT !.pending.countdown = Append(@, [kind |-> "set", value |-> n])]
setSosCountdownUpdater(w) ==
    [w EXCEPT !.pending.countdown = Append(@, [kind |-> "updater", value |-> 0])]

activateSOS(w) ==
    toast(speak(vibrate(setSosActive(setIsActivating(w, FALSE), TRUE), "sos"),
                "Emergency SOS activated"),
          "SOS ACTIVATED")

cancelSOS(w) ==
    LET w1 == [w EXCEPT !.countdownRef.live = FALSE]
        w2 == setCrashDetected(setSosActive(setIsActivating(w1, FALSE), FALSE),
                               FALSE)
    IN  toast(setSosCountdown(vibrate(w2, "stop"), SosCountdown),
              "SOS Cancelled")

startSOSCountdown(w) ==
    LET w1 == vibrate(setSosCountdown(setIsActivating(w, TRUE), SosCountdown),
                      "sos")
    IN  [w1 EXCEPT !.countdownRef = [live |-> TRUE, due |-> w.now + TickMs],
                   !.startedAt = w.now]

(* The updater the interval callback hands to setCountdown *)
sosCountdownUpdater(w, prev) ==
    IF prev <= 1
    THEN [w |-> activateSOS([w EXCEPT !.countdownRef.live = FALSE]),
          value |-> 0]
    ELSE [w |-> vibrate(w, "warning"), value |-> prev - 1]

(* The callback of the timeout: crashDetected is the one of the render that *)
(* set the timeout                                                          *)
timeoutCallback(w) ==
    LET w1 == [w EXCEPT !.timeout.live = FALSE]
    IN  IF w.timeout.crashDetected THEN activateSOS(w1) ELSE w1

(* The effect detecting whatever crashDetected and sosActive are *)
crashDetectionEffectWithoutDedupe(w) ==
    LET w1 == [w EXCEPT !.timeout.live = FALSE]
    IN  IF /\ w.sensorData # Null
           /\ MagnitudeSq(w.sensorData[1]) > SosThreshold * SosThreshold
        THEN [toast(vibrate(setCrashDetected(w1, TRUE), "collision"),
                    "Impact Detected")
                 EXCEPT !.timeout = [live |-> TRUE, due |-> w.now + SosDelay,
                                     crashDetected |-> w.crashDetected],
                        !.detectedAt = w.now]
        ELSE w1

(* The crash detection effect: the cleanup its last run returned, then its  *)
(* body                                                                     *)
crashDetectionEffect(w) ==
    LET w1 == [w EXCEPT !.timeout.live = FALSE]
    IN  IF /\ w.sensorData # Null
           /\ MagnitudeSq(w.sensorData[1]) > SosThreshold * SosThreshold
           /\ ~w.crashDetected
           /\ ~w.sosActive
        THEN [toast(vibrate(setCrashDetected(w1, TRUE), "collision"),
                    "Impact Detected")
                 EXCEPT !.timeout = [live |-> TRUE, due |-> w.now + SosDelay,
                                     crashDetected |-> w.crashDetected],
                        !.detectedAt = w.now]
        ELSE w1

SosApplyPlain(w, p) ==
    [w EXCEPT !.isActivating = LastOr(p.isActivating, @),
              !.sosActive = LastOr(p.sosActive, @),
              !.crashDetected = LastOr(p.crashDetected, @)]

RECURSIVE SosApplyCountdown(_, _)
SosApplyCountdown(w, queue) ==
    IF queue = <<>> THEN w
    ELSE LET u == Head(queue)
             r == sosCountdownUpdater(w, w.countdown)
         IN  IF u.kind = "set"
             THEN SosApplyCountdown([w EXCEPT !.countdown = u.value],
                                    Tail(queue))
             ELSE SosApplyCountdown([r.w EXCEPT !.countdown = r.value],
                                    Tail(queue))

sosProcessQueues(w) ==
    LET p == w.pending
        w1 == SosApplyPlain([w EXCEPT !.pending = SosNoPending], p)
        w2 == SosApplyCountdown(w1, p.countdown)
    IN  SosApplyPlain([w2 EXCEPT !.pending = SosNoPending], w2.pending)

(* A render; the effect runs when sensorData, crashDetected or sosActive    *)
(* changed                                                                  *)
sosRender(w, before) ==
    LET w1 == sosProcessQueues(w)
        w2 == IF \/ w1.sensorData # before.sensorData
                 \/ w1.crashDetected # before.crashDetected
                 \/ w1.sosActive # before.sosActive
              THEN crashDetectionEffect(w1)
              ELSE w1
    IN  [w2 EXCEPT !.mustFlush = (w2.pending # SosNoPending)]

SosCommit(w) ==
    /\ sos' = w
    /\ UNCHANGED <<componentVars, probe>>

SosBegin(op) == [sos EXCEPT !.lastOp = op, !.fx = SosNoFx]

(* A new sensorData prop *)
SosSample(a) ==
    /\ ~sos.mustFlush
    /\ Some([acceleration |-> a]) # sos.sensorData
    /\ SosCommit(sosRender([SosBegin("sample") EXCEPT
                               !.sensorData = Some([acceleration |-> a])],
                           sos))

(* The SOS button, shown while SOS is neither counting down nor active *)
SosStartClick ==
    /\ ~sos.mustFlush
    /\ ~sos.isActivating
    /\ ~sos.sosActive
    /\ SosCommit(handled(startSOSCountdown(SosBegin("start"))))

(* The cancel buttons: of the impact warning, of the countdown, of the      *)
(* active SOS                                                               *)
SosCancelClick ==
    /\ ~sos.mustFlush
    /\ \/ sos.crashDetected /\ ~sos.sosActive
       \/ sos.isActivating
       \/ sos.sosActive
    /\ SosCommit(handled(cancelSOS(SosBegin("cancel"))))

(* A timer that is due runs its callback: the timeout of the effect, or the *)
(* interval of the countdown, whose updater React runs at once when nothing *)
(* else is queued, else in the render.                                      *)
SosTimerFires(timer) ==
    /\ ~sos.mustFlush
    /\ IF timer = "timeout"
       THEN /\ sos.timeout.live
            /\ sos.now >= sos.timeout.due
            /\ SosCommit(timeoutCallback(SosBegin("timeout")))
       ELSE /\ sos.countdownRef.live
            /\ sos.now >= sos.countdownRef.due
            /\ \E eager \in BOOLEAN :
                 LET w == [SosBegin("tick") EXCEPT
                              !.countdownRef.due = sos.now + TickMs]
                     r == sosCountdownUpdater(w, w.countdown)
                 IN  /\ eager => sos.pending = SosNoPending
                     /\ SosCommit(IF eager THEN setSosCountdown(r.w, r.value)
                                  ELSE setSosCountdownUpdater(w))

SosRender ==
    /\ sos.pending # SosNoPending
    /\ SosCommit(sosRender(SosBegin("render"), sos))

(* The clock moves by one timer period, not past a timer that is due *)
SosAdvance ==
    /\ ~sos.mustFlush
    /\ sos.pending = SosNoPending
    /\ sos.now + TickMs <= StartTime + SosHorizon
    /\ sos.timeout.live => sos.now < sos.timeout.due
    /\ sos.countdownRef.live => sos.now < sos.countdownRef.due
    /\ SosCommit([SosBegin("advance") EXCEPT !.now = sos.now + TickMs])

NextSOS ==
    \/ \E a \in SosSamples : SosSample(a)
    \/ SosStartClick
    \/ SosCancelClick
    \/ \E timer \in SosTimers : SosTimerFires(timer)
    \/ SosRender
    \/ SosAdvance

SpecSOS == Init /\ [][NextSOS]_vars

-----------------------------------------------------------------------------
(* analyzeImpact on its own: a reading is drawn, then analysed.  The        *)
(* readings put the magnitude on, just below and between the thresholds,    *)
(* on one axis and spread over two or three.                                *)

AxisReadings ==
    {-60, -40, -25, -15, -14, -12, -9, -1, 0, 1, 2, 5, 9, 12, 14, 15, 20, 24,
     25, 32, 36, 39, 40, 48, 59, 60}

GyroReadings == {Gyro(0, 0, 0), Gyro(30, -40, 100)}

Readings ==
    {[acceleration |-> Acc(x, y, z), gyroscope |-> g] :
        x \in AxisReadings, y \in AxisReadings, z \in AxisReadings,
        g \in GyroReadings}

InitAnalyze ==
    /\ Mounted
    /\ sos = SosMounted
    /\ probe \in {[fn |-> "reading", input |-> Some(r), output |-> Null] :
                     r \in Readings}

Analyze ==
    /\ probe.fn = "reading"
    /\ probe' = [fn |-> "analyzeImpact", input |-> probe.input,
                 output |-> Some(analyzeImpact(probe.input[1].acceleration,
                                               probe.input[1].gyroscope))]
    /\ UNCHANGED <<componentVars, sos>>

SpecAnalyze == InitAnalyze /\ [][Analyze]_vars

-----------------------------------------------------------------------------
(* The confidence of analyzeImpact and what the monitoring effect does with *)
(* it: a reading is drawn, then analysed, or handed as sensorData to the    *)
(* effect of the component just mounted.  The readings have whole           *)
(* magnitudes, but the last two of each list, and put the confidence below, *)
(* on and above its cap at every severity.                                  *)

ConfidenceAccelerations ==
    {Acc(0, 0, 0), Acc(0, 0, 10), Acc(3, 4, 12), Acc(9, 12, 0), Acc(0, -30, 0),
     Acc(0, 21, 28), Acc(-40, 0, 0), Acc(20, 48, 0), Acc(0, 0, 60),
     Acc(1, 1, 0), Acc(10, 10, 10)}

ConfidenceGyroscopes ==
    {Gyro(0, 0, 0), Gyro(30, 40, 0), Gyro(0, 0, 100), Gyro(30, -40, 120),
     Gyro(100, 200, 200), Gyro(1, 2, 3), Gyro(0, 0, 334)}

ConfidenceReadings ==
    {[acceleration |-> a, gyroscope |-> g] :
        a \in ConfidenceAccelerations, g \in ConfidenceGyroscopes}

InitConfidence ==
    /\ Mounted
    /\ sos = SosMounted
    /\ probe \in {[fn |-> "reading", input |-> Some(r), output |-> Null] :
                     r \in ConfidenceReadings}

MonitorReading ==
    /\ probe.fn = "reading"
    /\ probe' = [fn |-> "monitorEffect", input |-> probe.input,
                 output |-> Some(monitorEffect(
                               [Begin("sample") EXCEPT
                                   !.sensorData = probe.input]))]
    /\ UNCHANGED <<componentVars, sos>>

NextConfidence == Analyze \/ MonitorReading

SpecConfidence == InitConfidence /\ [][NextConfidence]_vars

-----------------------------------------------------------------------------
(* generateCrashReport on its own: an event is drawn among those the effect *)
(* constructs, marked reported as triggerEmergency does, then reported.     *)

ReportTimes == {StartTime + k * TickMs : k \in 0..ReportInstants}

ReportEvents ==
    {[NewCrashEvent([now |-> t, locationData |-> l, sensorData |-> Some(r)],
                    analyzeImpact(r.acceleration, r.gyroscope))
         EXCEPT !.reported = TRUE] :
        t \in ReportTimes, l \in Locations,
        r \in {x \in Samples : SampleSeverity(Some(x)) # "safe"}}

InitReport ==
    /\ Mounted
    /\ sos = SosMounted
    /\ probe \in {[fn |-> "event", input |-> Some(e), output |-> Null] :
                     e \in ReportEvents}

BuildReport ==
    /\ probe.fn = "event"
    /\ probe' = [fn |-> "generateCrashReport", input |-> probe.input,
                 output |-> Some(generateCrashReport(probe.input[1]))]
    /\ UNCHANGED <<componentVars, sos>>

SpecReport == InitReport /\ [][BuildReport]_vars

-----------------------------------------------------------------------------
(* The speed of an event: the component holds a location snapshot when a    *)
(* reading is detected, and the event the effect constructs is reported by  *)
(* triggerEmergency when it is escalated.                                   *)

SpeedSnapshots ==
    {[locationData |-> l, sensorData |-> Some(r), now |-> t] :
        l \in Locations, t \in ReportTimes,
        r \in {x \in Samples : SampleSeverity(Some(x)) # "safe"}}

InitSpeed ==
    /\ Mounted
    /\ sos = SosMounted
    /\ probe \in {[fn |-> "snapshot", input |-> Some(s), output |-> Null] :
                     s \in SpeedSnapshots}

DetectAt ==
    /\ probe.fn = "snapshot"
    /\ LET w == monitorEffect(
                    [Begin("sample") EXCEPT
                        !.sensorData = probe.input[1].sensorData,
                        !.locationData = probe.input[1].locationData,
                        !.now = probe.input[1].now])
           crashEvent == IF w.pending.activeCrash # <<>>
                         THEN w.pending.activeCrash[1][1]
                         ELSE w.pending.history[1]
       IN  probe' = [fn |-> "monitorEffect", input |-> probe.input,
                     output |-> Some([crash |-> crashEvent, report |-> Null])]
    /\ UNCHANGED <<componentVars, sos>>

ReportAt ==
    /\ probe.fn = "monitorEffect"
    /\ probe.output[1].crash.type # "minor"
    /\ LET crash == probe.output[1].crash
           w == triggerEmergency(Begin("trigger"), Some(crash))
       IN  probe' = [fn |-> "triggerEmergency", input |-> probe.input,
                     output |-> Some([crash |-> crash,
                                      report |-> Some(w.reports[1])])]
    /\ UNCHANGED <<componentVars, sos>>

NextSpeed == DetectAt \/ ReportAt

SpecSpeed == InitSpeed /\ [][NextSpeed]_vars

-----------------------------------------------------------------------------
(* Properties *)

(* A session is armed and no update of it is in flight *)
Armed == activeCrash # Null /\ pending = EmptyPending

(* No session and nothing in flight *)
Idle == activeCrash = Null /\ pending = EmptyPending

(* C1: while a session is armed, a sample of severity moderate, severe or    *)
(* critical starts no second session, whenever it arrives: activeCrash, the *)
(* countdown and the interval stay as they are, no event is constructed and *)
(* no collision alert is emitted.                                           *)
C1_SingleSession ==
    [][(/\ lastOp' = "sample"
        /\ Armed
        /\ Escalates(SampleSeverity(sensorData')))
       => /\ activeCrash' = activeCrash
          /\ countdown' = countdown
          /\ interval' = interval
          /\ pending' = EmptyPending
          /\ constructed' = constructed
          /\ lastCrashTime' = lastCrashTime
          /\ fx'.haptic = <<>>]_vars

C1_Witness ==
    /\ lastOp = "sample"
    /\ Armed
    /\ isMonitoring
    /\ Escalates(SampleSeverity(sensorData))
    /\ now - activeCrash[1].timestamp > COOLDOWN
    /\ fx.suppressed

(* C2: a CrashEvent is constructed only more than COOLDOWN ms after the one *)
(* that last set lastCrashTime; a non-safe sample that arrives within the   *)
(* cooldown changes nothing; a non-safe sample that arrives later, with no  *)
(* session active and monitoring on, constructs exactly one event.          *)
C2_Cooldown ==
    [][/\ constructed' # constructed
          => /\ now' - lastCrashTime > COOLDOWN
             /\ constructed' = Append(constructed, now')
             /\ lastCrashTime' = now'
       /\ (/\ lastOp' = "sample"
           /\ pending = EmptyPending
           /\ SampleSeverity(sensorData') # "safe"
           /\ now - lastCrashTime <= COOLDOWN)
          => /\ UNCHANGED <<crashHistory, activeCrash, countdown, lastCrashTime,
                            constructed, pending, interval>>
             /\ fx'.haptic = <<>>
       /\ (/\ lastOp' = "sample"
           /\ Idle
           /\ isMonitoring
           /\ SampleSeverity(sensorData') # "safe"
           /\ now - lastCrashTime > COOLDOWN)
          => /\ constructed' = Append(constructed, now)
             /\ lastCrashTime' = now]_vars

C2_Witness ==
    /\ lastOp = "sample"
    /\ fx.constructed
    /\ Len(constructed) = 2
    /\ constructed[2] - constructed[1] = COOLDOWN + TickMs

(* C3: cancelAlert run on an armed session queues the active event with     *)
(* reported = FALSE, builds no report, calls onEmergencyTrigger not at all  *)
(* and stops the interval; the render that follows puts the event at the    *)
(* head of the log and leaves no active crash and no dialog.                *)
C3_Cancel ==
    [][/\ (lastOp' = "cancel" /\ Armed)
          => /\ pending'.history = <<[activeCrash[1] EXCEPT !.reported = FALSE]>>
             /\ pending'.activeCrash = <<Null>>
             /\ pending'.show = <<FALSE>>
             /\ ~interval'.live
             /\ fx'.dispatch = 0
             /\ fx'.reports = 0
             /\ dispatched' = dispatched
             /\ reports' = reports
       /\ (/\ lastOp = "cancel"
           /\ activeCrash # Null
           /\ Len(pending.countdown) = 1
           /\ lastOp' = "render")
          => /\ crashHistory' =
                   Take(<<[activeCrash[1] EXCEPT !.reported = FALSE]>>
                        \o crashHistory, MaxHistory)
             /\ activeCrash' = Null
             /\ ~showCrashDialog'
             /\ fx'.dispatch = 0
             /\ fx'.reports = 0
             /\ dispatched' = dispatched
             /\ reports' = reports]_vars

C3_Witness ==
    /\ lastOp = "cancel"
    /\ activeCrash # Null
    /\ Len(pending.countdown) = 1
    /\ countdown = 3
    /\ pending.history # <<>>

(* C9: a session that starts has countdown 10 when the sample that started  *)
(* it is critical and 15 when it is moderate or severe.                     *)
C9_InitialCountdown ==
    [][(activeCrash' # Null /\ activeCrash' # activeCrash)
       => /\ SampleSeverity(sensorData') = "critical"
             => countdown' = CriticalCountdown
          /\ SampleSeverity(sensorData') \in {"moderate", "severe"}
             => countdown' = DefaultCountdown
          /\ Escalates(SampleSeverity(sensorData'))
          /\ activeCrash'[1].timestamp = now']_vars

C9_Witness ==
    /\ lastOp = "render"
    /\ activeCrash # Null
    /\ activeCrash[1].timestamp = now
    /\ SampleSeverity(sensorData) = "critical"
    /\ countdown = CriticalCountdown
    /\ interval.live

(* Ids of the events logged, or queued for the log, as cancelled *)
CancelledIds(history, queue) ==
    {e.id : e \in {x \in Range(history) \cup Range(queue.history) :
                      ~x.reported /\ x.type # "minor"}}

(* Ids of the events logged or queued as reported, or handed to the         *)
(* Dispatcher                                                               *)
TriggeredIds(history, queue, calls) ==
    {e.id : e \in {x \in Range(history) \cup Range(queue.history) : x.reported}}
    \cup Range(calls)

(* C4: once a session is cancelled, its event is never logged as reported   *)
(* and onEmergencyTrigger is never called for it, and its countdown emits   *)
(* no further haptic.                                                       *)
C4_NoTriggerAfterCancel ==
    [][\A id \in CancelledIds(crashHistory, pending) :
          /\ id \in TriggeredIds(crashHistory', pending', dispatched')
                => id \in TriggeredIds(crashHistory, pending, dispatched)
          /\ Count(dispatched', id) = Count(dispatched, id)]_vars

ReportIds == [i \in 1..Len(reports) |-> reports[i].reportId]

(* C5: an event in the log with reported = TRUE had its report built once   *)
(* and onEmergencyTrigger called once.                                      *)
C5_TriggeredOnce ==
    \A e \in Range(crashHistory) :
        e.reported => Count(dispatched, e.id) = 1 /\ Count(ReportIds, e.id) = 1

(* C6: no event is in the log twice.                                        *)
C6_ResolvedOnce ==
    \A i, j \in DOMAIN crashHistory :
        i # j => crashHistory[i].id # crashHistory[j].id

(* C7: triggerEmergency run with no active crash queues nothing for the     *)
(* log, builds no report and does not call onEmergencyTrigger.              *)
C7_TriggerGuarded ==
    (lastOp = "trigger" /\ activeCrash = Null)
    => /\ pending.history = <<>>
       /\ fx.reports = 0
       /\ fx.dispatch = 0

(* C8: cancelAlert run with no active crash queues nothing for the log,     *)
(* says and shows nothing, and queues no state change.                      *)
C8_CancelOnlyWhileArmed ==
    (lastOp = "cancel" /\ activeCrash = Null)
    => /\ pending.history = <<>>
       /\ fx.voice = <<>>
       /\ fx.toast = <<>>
       /\ pending.countdown = <<>>

(* C10: the log never holds more than MaxHistory entries, and a render that *)
(* changes it puts the new entries at the head, keeps the entries it had in *)
(* their order behind them and drops from the tail, the earliest inserted,  *)
(* what no longer fits.                                                     *)
C10_BoundedLog ==
    /\ Len(crashHistory) <= MaxHistory
    /\ [][/\ Len(crashHistory') <= MaxHistory
          /\ crashHistory' # crashHistory
             => \E n \in 1..2 :
                  /\ Len(crashHistory') = Min(Len(crashHistory) + n, MaxHistory)
                  /\ \A i \in 1..Len(crashHistory') :
                        i > n => crashHistory'[i] = crashHistory[i - n]]_vars

C10_Witness ==
    /\ Len(crashHistory) = MaxHistory
    /\ crashHistory[1].id > StartTime
    /\ crashHistory[1].reported
    /\ crashHistory[MaxHistory] = PastBump(MaxHistory - 1)

(* C11: a minor sample that is detected (idle, monitoring, cooldown over)    *)
(* queues its event for the log with type minor and reported = FALSE and    *)
(* emits the warning haptic; it queues no active crash, no dialog and no    *)
(* countdown and calls no onEmergencyTrigger; the render that follows puts  *)
(* the event at the head of the log and starts no interval.                 *)
C11_MinorLogged ==
    [][/\ (/\ lastOp' = "sample"
           /\ Idle
           /\ isMonitoring
           /\ SampleSeverity(sensorData') = "minor"
           /\ now - lastCrashTime > COOLDOWN)
          => /\ Len(pending'.history) = 1
             /\ pending'.history[1].id = now
             /\ pending'.history[1].type = "minor"
             /\ ~pending'.history[1].reported
             /\ fx'.haptic = <<"warning">>
             /\ pending'.activeCrash = <<>>
             /\ pending'.show = <<>>
             /\ pending'.countdown = <<>>
             /\ UNCHANGED <<activeCrash, countdown, showCrashDialog, interval,
                            dispatched, reports>>
             /\ fx'.dispatch = 0
       /\ (/\ lastOp = "sample"
           /\ fx.constructed
           /\ pending.activeCrash = <<>>
           /\ lastOp' = "render")
          => /\ crashHistory' = pushHistory(crashHistory, pending.history[1])
             /\ activeCrash' = Null
             /\ ~interval'.live
             /\ pending' = EmptyPending
             /\ UNCHANGED <<countdown, showCrashDialog, dispatched, reports>>
             /\ fx'.dispatch = 0]_vars

C11_Witness ==
    /\ lastOp = "render"
    /\ crashHistory # <<>>
    /\ crashHistory[1].id = now
    /\ crashHistory[1].type = "minor"
    /\ ~crashHistory[1].reported
    /\ Idle
    /\ ~interval.live
    /\ dispatched = <<>>

(* C12: with m the magnitude of the acceleration, the severity is safe      *)
(* exactly when m < 15, minor when 15 <= m < 25, moderate when              *)
(* 25 <= m < 40, severe when 40 <= m < 60 and critical when m >= 60,        *)
(* whatever the gyroscope reads (m compared by its square).                 *)
C12_SeverityBands ==
    probe.fn = "analyzeImpact" =>
        LET mSq == MagnitudeSq(probe.input[1])
            severity == probe.output[1].severity
        IN  /\ severity = "safe" <=> mSq < 15 * 15
            /\ severity = "minor" <=> (15 * 15 <= mSq /\ mSq < 25 * 25)
            /\ severity = "moderate" <=> (25 * 25 <= mSq /\ mSq < 40 * 40)
            /\ severity = "severe" <=> (40 * 40 <= mSq /\ mSq < 60 * 60)
            /\ severity = "critical" <=> 60 * 60 <= mSq

C12_Witness ==
    /\ probe.fn = "analyzeImpact"
    /\ MagnitudeSq(probe.input[1]) = 40 * 40
    /\ probe.input[1].acceleration.x # 0
    /\ probe.input[1].acceleration.y # 0
    /\ probe.input[1].gyroscope # Gyro(0, 0, 0)
    /\ probe.output[1].severity = "severe"

(* A minor bump of the log whose cooldown has not ended *)
RecentMinorBump ==
    \E e \in Range(crashHistory) :
        e.type = "minor" /\ ~e.reported /\ now - e.timestamp <= COOLDOWN

(* C13: the sample that logs a minor bump sets lastCrashTime to its time,   *)
(* and a moderate, severe or critical sample that arrives 30000 ms or less  *)
(* after a logged minor bump constructs no event, leaves lastCrashTime as   *)
(* it is, and starts no session.                                            *)
C13_CooldownAfterMinor ==
    [][/\ (/\ lastOp' = "sample"
           /\ fx'.constructed
           /\ pending'.activeCrash = <<>>)
          => lastCrashTime' = now'
       /\ (/\ lastOp' = "sample"
           /\ Escalates(SampleSeverity(sensorData'))
           /\ RecentMinorBump)
          => /\ constructed' = constructed
             /\ lastCrashTime' = lastCrashTime
             /\ activeCrash' = Null
             /\ \A i \in 1..Len(pending'.activeCrash) :
                   pending'.activeCrash[i] = Null
             /\ ~interval'.live
             /\ fx'.haptic = <<>>]_vars

C13_Witness ==
    /\ lastOp = "sample"
    /\ isMonitoring
    /\ SampleSeverity(sensorData) = "critical"
    /\ fx.suppressed
    /\ crashHistory # <<>>
    /\ crashHistory[1].type = "minor"
    /\ now - crashHistory[1].timestamp = COOLDOWN
    /\ Idle

(* C14: a session that is armed is resolved: eventually no crash is active, *)
(* nothing is queued and the interval is stopped; and the render that       *)
(* clears the active crash leaves its event in the log.                     *)
C14_SessionEnds ==
    /\ (activeCrash # Null) ~> (Idle /\ ~interval.live)
    /\ [][(activeCrash # Null /\ activeCrash' = Null)
          => \E e \in Range(crashHistory') :
                /\ e.id = activeCrash[1].id
                /\ [e EXCEPT !.reported = FALSE] = activeCrash[1]]_vars

C14_Witness ==
    /\ lastOp = "render"
    /\ Idle
    /\ ~interval.live
    /\ countdown = 0
    /\ crashHistory # <<>>
    /\ crashHistory[1].reported
    /\ now = crashHistory[1].timestamp + DefaultCountdown * TickMs
    /\ dispatched = <<crashHistory[1].id>>

(* C15: triggerEmergency run by the button while a crash is active queues   *)
(* the active event with reported = TRUE, builds one report, calls          *)
(* onEmergencyTrigger once and stops the interval; the render that follows  *)
(* puts the event at the head of the log, leaves no active crash, and       *)
(* triggers nothing more: the event has been handed over exactly once.      *)
C15_ManualTrigger ==
    [][/\ (lastOp' = "trigger" /\ activeCrash # Null)
          => /\ pending'.history # <<>>
             /\ pending'.history[Len(pending'.history)]
                   = [activeCrash[1] EXCEPT !.reported = TRUE]
             /\ fx'.reports = 1
             /\ fx'.dispatch = 1
             /\ ~interval'.live
       /\ (lastOp = "trigger" /\ activeCrash # Null /\ lastOp' = "render")
          => /\ crashHistory' # <<>>
             /\ crashHistory'[1] = [activeCrash[1] EXCEPT !.reported = TRUE]
             /\ activeCrash' = Null
             /\ ~showCrashDialog'
             /\ ~interval'.live
             /\ fx'.reports = 0
             /\ fx'.dispatch = 0
             /\ Count(dispatched', activeCrash[1].id) = 1]_vars

(* C16: the impactDirection of an analysis is one of Left, Right, Forward,  *)
(* Backward, Upward, Downward and None, and it is None for no reading with  *)
(* an axis other than 0.                                                    *)
C16_Direction ==
    probe.fn = "analyzeImpact" =>
        LET accel == probe.input[1].acceleration
            direction == probe.output[1].impactDirection
        IN  /\ direction \in {"Left", "Right", "Forward", "Backward", "Upward",
                              "Downward", "None"}
            /\ direction = "None" => (accel.x = 0 /\ accel.y = 0 /\ accel.z = 0)

C16_Witness ==
    /\ probe.fn = "analyzeImpact"
    /\ probe.input[1].acceleration = Acc(0, 0, -1)
    /\ probe.output[1].impactDirection = "Downward"

(* C17: a report is built from every event; its location is "Unknown"       *)
(* exactly when the event has no location, and so is its mapsLink null;     *)
(* the mapsLink of an event with a location carries the lat and the lng of  *)
(* the event; speedAtImpact is "Unknown" when the event has no speed; and   *)
(* reportId is the id of the event.                                         *)
C17_Report ==
    probe.fn = "generateCrashReport" =>
        LET crash == probe.input[1]
            r == probe.output[1]
        IN  /\ r.location = Unknown <=> crash.location = Null
            /\ r.mapsLink = Null <=> crash.location = Null
            /\ crash.location # Null
                  => /\ r.mapsLink[1].lat = crash.location[1].lat
                     /\ r.mapsLink[1].lng = crash.location[1].lng
            /\ crash.speed = Null => r.speedAtImpact = Unknown
            /\ r.reportId = crash.id

C17_Witness ==
    /\ probe.fn = "generateCrashReport"
    /\ probe.input[1].location # Null
    /\ probe.input[1].speed = Null
    /\ probe.output[1].speedAtImpact = Unknown
    /\ probe.output[1].mapsLink # Null
    /\ probe.output[1].location.lat * 10 # probe.input[1].location[1].lat

(* C18: an entry of the log with reported = TRUE stays in the log as it is, *)
(* behind the entries a later step puts before it, unless it is pushed past *)
(* the last place of the log; and no later step adds an entry that says     *)
(* reported = FALSE of the same event.                                      *)
C18_NoUndo ==
    [][\A i \in DOMAIN crashHistory :
          crashHistory[i].reported =>
             /\ \E n \in 0..2 :
                  /\ Len(crashHistory') = Min(Len(crashHistory) + n, MaxHistory)
                  /\ \/ /\ i + n <= Len(crashHistory')
                        /\ crashHistory'[i + n] = crashHistory[i]
                     \/ i + n > MaxHistory
             /\ \A j \in DOMAIN crashHistory' :
                   (/\ crashHistory'[j].id = crashHistory[i].id
                    /\ ~crashHistory'[j].reported)
                   => \E k \in DOMAIN crashHistory :
                         crashHistory[k] = crashHistory'[j]]_vars

C18_Witness ==
    /\ lastOp = "render"
    /\ Len(crashHistory) >= 2
    /\ crashHistory[2].reported
    /\ crashHistory[1].id # crashHistory[2].id
    /\ ~crashHistory[1].reported
    /\ crashHistory[1].type # "minor"

(* C19: the ids of the events constructed, logged minor bumps and escalated *)
(* events alike, are all different, and each is the time of its detection.  *)
C19_UniqueIds ==
    /\ \A i, j \in DOMAIN constructed :
          i # j => constructed[i] # constructed[j]
    /\ \A e \in Range(crashHistory) \cup Range(pending.history)
                \cup Range(activeCrash) :
          /\ e.id = e.timestamp
          /\ e.id \in Range(constructed)

C19_Witness ==
    /\ Len(constructed) = 2
    /\ Len(crashHistory) = 2
    /\ crashHistory[1].type = "minor"
    /\ crashHistory[2].type = "minor"
    /\ crashHistory[1].id = crashHistory[2].id + COOLDOWN + TickMs

(* C20: once crashDetected has been set by an impact and has stayed set     *)
(* (the rider has not cancelled) for more than the 10 seconds of the delay, *)
(* SOS is active.                                                           *)
C20_AutoActivation ==
    (/\ sos.crashDetected
     /\ sos.pending = SosNoPending
     /\ sos.now > sos.detectedAt + SosDelay)
    => sos.sosActive

(* The countdown a session starts with, told from the event of the session *)
SessionLength(crash) == InitialCountdown(Severity(crash.gForceSq))

(* The callbacks the interval of the session has run: it is due one period  *)
(* after the session started and one period after each callback             *)
TicksFired(crash) == (interval.due - crash.timestamp) \div TickMs - 1

(* C21: while a session is armed its countdown is the one it started with   *)
(* less one for each tick of the interval, and never below 1; a step that   *)
(* changes the countdown of a session that stays takes 1 off; and the       *)
(* session triggers by itself on the tick that comes as many periods after  *)
(* its start as its countdown started with (15, or 10 when critical), on no *)
(* other.                                                                   *)
C21_TickCount ==
    /\ [](Armed /\ interval.live
          => /\ countdown = SessionLength(activeCrash[1])
                            - TicksFired(activeCrash[1])
             /\ countdown >= 1)
    /\ [][/\ (activeCrash # Null /\ activeCrash' = activeCrash
              /\ countdown' # countdown)
             => countdown' = countdown - 1
          /\ (fx'.dispatch > 0 /\ lastOp' # "trigger")
             => /\ dispatched' # <<>>
                /\ \E e \in Range(crashHistory') \cup Range(pending'.history) :
                      /\ e.id = dispatched'[Len(dispatched')]
                      /\ now' = e.timestamp + SessionLength(e) * TickMs]_vars

C21_Witness ==
    /\ lastOp = "tick"
    /\ fx.dispatch = 1
    /\ pending.history # <<>>
    /\ Severity(pending.history[1].gForceSq) = "critical"
    /\ now = pending.history[1].timestamp + CriticalCountdown * TickMs
    /\ countdown = 1

(* C22: the tick that leaves the countdown of an armed session at 5 or less *)
(* emits the danger haptic, the tick from 6 to 5 included, and the tick     *)
(* that leaves it above 5 does not; told of the callback whose updater runs *)
(* at once and of the render that runs a queued updater.                    *)
C22_DangerHaptic ==
    [][/\ (/\ lastOp' = "tick"
           /\ Armed
           /\ pending'.countdown # <<>>
           /\ pending'.countdown[1].kind = "set")
          => ("danger" \in Range(fx'.haptic)
                 <=> pending'.countdown[1].value <= 5)
       /\ (/\ lastOp = "tick"
           /\ activeCrash # Null
           /\ pending.countdown # <<>>
           /\ pending.countdown[1].kind = "updater"
           /\ lastOp' = "render")
          => ("danger" \in Range(fx'.haptic) <=> countdown' <= 5)]_vars

(* C23: a sample of severity safe, arriving with nothing queued, changes    *)
(* neither lastCrashTime nor the active crash, the countdown, the log, the  *)
(* dialog or the interval, queues nothing, constructs no event and emits no *)
(* haptic, voice, toast, report or onEmergencyTrigger call, whether a       *)
(* session is armed or not and whether monitoring is on or off.             *)
C23_SafeSample ==
    [][(/\ lastOp' = "sample"
        /\ pending = EmptyPending
        /\ SampleSeverity(sensorData') = "safe")
       => /\ UNCHANGED <<lastCrashTime, activeCrash, countdown, crashHistory,
                         showCrashDialog, interval, dispatched, reports,
                         constructed>>
          /\ pending' = EmptyPending
          /\ fx' = NoFx]_vars

C23_Witness ==
    /\ lastOp = "sample"
    /\ SampleSeverity(sensorData) = "safe"
    /\ isMonitoring
    /\ Armed
    /\ interval.live
    /\ now - lastCrashTime > COOLDOWN
    /\ impactAnalysis.severity = "safe"

(* The events of the component: logged, queued for the log, active, queued  *)
(* as active, or held by the interval                                       *)
EventsOf(history, active, queue, timer) ==
    Range(history) \cup Range(queue.history) \cup Range(active)
    \cup Range(timer.crash)
    \cup UNION {Range(queue.activeCrash[i]) : i \in 1..Len(queue.activeCrash)}

(* C24: the event a sample constructs has type severe when the severity of  *)
(* the sample is critical or severe, moderate when it is moderate and minor *)
(* when it is minor; every event logged, queued or active has one of these  *)
(* three types; and every event that armed a session has type moderate or   *)
(* severe.                                                                  *)
C24_EventType ==
    /\ [](/\ \A e \in EventsOf(crashHistory, activeCrash, pending, interval) :
                e.type \in {"minor", "moderate", "severe"}
          /\ \A e \in Range(activeCrash) \cup Range(interval.crash) :
                e.type \in {"moderate", "severe"})
    /\ [][constructed' # constructed
          => \E e \in EventsOf(crashHistory', activeCrash', pending',
                               interval') :
                /\ e.id = now'
                /\ LET severity == SampleSeverity(sensorData')
                   IN  /\ severity \in {"critical", "severe"}
                          => e.type = "severe"
                       /\ severity = "moderate" => e.type = "moderate"
                       /\ severity = "minor" => e.type = "minor"
                       /\ severity # "safe"]_vars

C24_Witness ==
    /\ lastOp = "render"
    /\ activeCrash # Null
    /\ activeCrash[1].type = "severe"
    /\ activeCrash[1].id = now
    /\ SampleSeverity(sensorData) = "critical"
    /\ crashHistory # <<>>
    /\ crashHistory[1].type = "minor"

(* C25: the direction is Right or Left, by the sign of x, when |x| is not   *)
(* less than |y| and |z|; else Forward or Backward, by the sign of y, when  *)
(* |y| is not less than |z|; else Upward or Downward, by the sign of z:     *)
(* the largest axis decides, the first of x, y, z among equals, and an axis *)
(* that is not positive gives the second name.                              *)
C25_DominantAxis ==
    probe.fn = "analyzeImpact" =>
        LET accel == probe.input[1].acceleration
            direction == probe.output[1].impactDirection
            ax == Abs(accel.x)
            ay == Abs(accel.y)
            az == Abs(accel.z)
        IN  /\ (ax >= ay /\ ax >= az)
               => direction = IF accel.x > 0 THEN "Right" ELSE "Left"
            /\ (ay > ax /\ ay >= az)
               => direction = IF accel.y > 0 THEN "Forward" ELSE "Backward"
            /\ (az > ax /\ az > ay)
               => direction = IF accel.z > 0 THEN "Upward" ELSE "Downward"

C25_Witness ==
    /\ probe.fn = "analyzeImpact"
    /\ probe.input[1].acceleration = Acc(5, -12, 12)
    /\ probe.output[1].impactDirection = "Backward"

(* C26: the confidence lies between 0 and 100 (kept in tenths); when the    *)
(* two magnitudes are whole numbers g and r it is the lesser of 100 and     *)
(* 2 * g + 0.3 * r; and the effect constructs an event exactly when the     *)
(* magnitude is 15 or more, arms a session exactly when it is 25 or more    *)
(* and logs a minor bump in between, whatever the confidence is.            *)
C26_Confidence ==
    /\ probe.fn = "analyzeImpact" =>
          LET c == probe.output[1].confidence
              gSq == MagnitudeSq(probe.input[1])
              gyro == probe.input[1].gyroscope
              rSq == gyro.alpha * gyro.alpha + gyro.beta * gyro.beta
                     + gyro.gamma * gyro.gamma
          IN  /\ 0 <= c.low
              /\ c.low <= c.high
              /\ c.high <= 100 * 10
              /\ \A g \in {k \in 0..104 : k * k = gSq} :
                    \A r \in {k \in 0..400 : k * k = rSq} :
                       /\ c.low = c.high
                       /\ c.low = Min(100 * 10, 2 * g * 10 + 3 * r)
    /\ probe.fn = "monitorEffect" =>
          LET w == probe.output[1]
              gSq == MagnitudeSq(probe.input[1])
          IN  /\ w.fx.constructed <=> gSq >= 15 * 15
              /\ w.pending.activeCrash # <<>> <=> gSq >= 25 * 25
              /\ w.pending.history # <<>> <=> (gSq >= 15 * 15 /\ gSq < 25 * 25)

C26_Witness ==
    /\ probe.fn = "monitorEffect"
    /\ probe.input[1] = [acceleration |-> Acc(0, 0, 10),
                         gyroscope |-> Gyro(100, 200, 200)]
    /\ probe.output[1].impactAnalysis.confidence
          = [low |-> ConfidenceCap, high |-> ConfidenceCap]
    /\ ~probe.output[1].fx.constructed
    /\ probe.output[1].pending = EmptyPending

(* The step has started a session: it constructed an event and queued it as *)
(* the active crash                                                         *)
StartsSession(effects, queue) ==
    effects.constructed /\ queue.activeCrash # <<>>

(* C27: the step that starts a session speaks one warning, which names the  *)
(* severity of the sample analysed and, as its seconds, the countdown the   *)
(* step queues (10 when critical, 15 otherwise), and emits the collision    *)
(* haptic once; the render that follows shows that countdown; and no other  *)
(* step speaks the warning or emits the collision haptic.                   *)
C27_StartAlert ==
    [][/\ StartsSession(fx', pending')
          => /\ fx'.voice # <<>>
             /\ pending'.countdown # <<>>
             /\ LET said == fx'.voice[Len(fx'.voice)]
                    queued == pending'.countdown[Len(pending'.countdown)]
                    severity == SampleSeverity(sensorData')
                IN  /\ said.text = "warning"
                    /\ said.severity = severity
                    /\ severity \in {"moderate", "severe", "critical"}
                    /\ queued.kind = "set"
                    /\ said.seconds = queued.value
                    /\ said.seconds = IF severity = "critical" THEN 10 ELSE 15
             /\ Count(fx'.haptic, "collision") = 1
             /\ Cardinality({i \in 1..Len(fx'.voice) :
                               fx'.voice[i].text = "warning"}) = 1
       /\ ~StartsSession(fx', pending')
          => /\ Count(fx'.haptic, "collision") = 0
             /\ \A i \in 1..Len(fx'.voice) : fx'.voice[i].text # "warning"
       /\ (StartsSession(fx, pending) /\ lastOp' = "render")
          => /\ countdown' = fx.voice[Len(fx.voice)].seconds
             /\ activeCrash' # Null
             /\ interval'.live]_vars

C27_Witness ==
    /\ lastOp = "render"
    /\ activeCrash # Null
    /\ activeCrash[1].timestamp = now
    /\ interval.live
    /\ countdown = CriticalCountdown
    /\ SampleSeverity(sensorData) = "critical"
    /\ crashHistory # <<>>
    /\ crashHistory[1].reported

(* activateSOS has run in the step that emitted these effects *)
Activated(effects) == "SOS ACTIVATED" \in Range(effects.toast)

(* C28: startSOSCountdown queues the countdown 5 and starts the interval;   *)
(* while the countdown runs, each tick has taken 1 off; activateSOS runs by *)
(* the countdown on its 5th tick only, once, and leaves the interval        *)
(* stopped; cancelSOS stops the interval, and the render that follows a     *)
(* cancel activates nothing and leaves isActivating, sosActive and          *)
(* crashDetected false and the countdown 5.                                 *)
C28_ManualCountdown ==
    /\ []((sos.countdownRef.live /\ sos.pending = SosNoPending)
          => /\ sos.isActivating
             /\ sos.countdown >= 1
             /\ sos.countdown
                   = SosCountdown
                     - ((sos.countdownRef.due - sos.startedAt) \div TickMs - 1))
    /\ [][/\ sos'.lastOp = "start"
             => /\ sos'.pending.countdown # <<>>
                /\ sos'.pending.countdown[Len(sos'.pending.countdown)]
                      = [kind |-> "set", value |-> 5]
                /\ sos'.countdownRef = [live |-> TRUE, due |-> sos.now + TickMs]
          /\ (Activated(sos'.fx) /\ sos'.lastOp \in {"tick", "render"})
             => /\ sos'.now = sos.startedAt + 5 * TickMs
                /\ Count(sos'.fx.toast, "SOS ACTIVATED") = 1
                /\ ~sos'.countdownRef.live
          /\ sos'.lastOp = "cancel" => ~sos'.countdownRef.live
          /\ (sos.lastOp = "cancel" /\ sos'.lastOp = "render")
             => /\ ~Activated(sos'.fx)
                /\ ~sos'.isActivating
                /\ ~sos'.sosActive
                /\ ~sos'.crashDetected
                /\ sos'.countdown = 5]_vars

(* The crash detection effect has detected an impact in the step that       *)
(* emitted these effects                                                    *)
ImpactRaised(effects) == "collision" \in Range(effects.haptic)

(* C29: a step raises an impact detection only with crashDetected and       *)
(* sosActive both false and an acceleration of magnitude above 30, and then *)
(* once; so a sample that arrives while crashDetected or sosActive is true  *)
(* and nothing is queued emits no collision haptic and sets no timeout,     *)
(* and a sample of magnitude 30 or less raises none in any state.           *)
C29_ImpactDedupe ==
    [][/\ ImpactRaised(sos'.fx)
          => /\ ~sos'.crashDetected
             /\ ~sos'.sosActive
             /\ MagnitudeSq(sos'.sensorData[1]) > 30 * 30
             /\ Count(sos'.fx.haptic, "collision") = 1
             /\ sos'.pending.crashDetected = <<TRUE>>
       /\ (/\ sos'.lastOp = "sample"
           /\ sos.pending = SosNoPending
           /\ sos.crashDetected \/ sos.sosActive)
          => /\ ~ImpactRaised(sos'.fx)
             /\ ~sos'.timeout.live
             /\ sos'.detectedAt = sos.detectedAt
             /\ sos'.crashDetected = sos.crashDetected
             /\ sos'.sosActive = sos.sosActive
             /\ sos'.pending = SosNoPending
       /\ (/\ sos'.lastOp = "sample"
           /\ MagnitudeSq(sos'.sensorData[1]) <= 30 * 30)
          => /\ ~ImpactRaised(sos'.fx)
             /\ ~sos'.timeout.live
             /\ sos'.pending.crashDetected = <<>>]_vars

C29_Witness ==
    /\ sos.lastOp = "sample"
    /\ sos.sosActive
    /\ sos.crashDetected
    /\ sos.sensorData = Some([acceleration |-> Acc(-40, 0, 0)])
    /\ sos.fx = SosNoFx
    /\ sos.now > sos.detectedAt
    /\ sos.pending = SosNoPending

(* C30: a sample that is not safe and arrives within the cooldown or while  *)
(* a crash is active leaves lastCrashTime as it is and constructs nothing;  *)
(* lastCrashTime is always the time of the last event constructed (0 before *)
(* the first); so the next event is constructed more than COOLDOWN ms after *)
(* the last one constructed, and a sample that is not safe and arrives that *)
(* late with no session and monitoring on does construct one.               *)
C30_CooldownNotExtended ==
    /\ [](lastCrashTime = IF constructed = <<>> THEN 0
                          ELSE constructed[Len(constructed)])
    /\ [][/\ (/\ lastOp' = "sample"
              /\ pending = EmptyPending
              /\ SampleSeverity(sensorData') # "safe"
              /\ \/ now - lastCrashTime <= COOLDOWN
                 \/ activeCrash # Null)
             => /\ lastCrashTime' = lastCrashTime
                /\ constructed' = constructed
          /\ (constructed' # constructed /\ constructed # <<>>)
             => now' - constructed[Len(constructed)] > COOLDOWN
          /\ (/\ lastOp' = "sample"
              /\ Idle
              /\ isMonitoring
              /\ constructed # <<>>
              /\ SampleSeverity(sensorData') # "safe"
              /\ now - constructed[Len(constructed)] > COOLDOWN)
             => constructed' = Append(constructed, now)]_vars

C30_Witness ==
    /\ lastOp = "sample"
    /\ fx.suppressed
    /\ isMonitoring
    /\ SampleSeverity(sensorData) = "minor"
    /\ activeCrash # Null
    /\ now - lastCrashTime > COOLDOWN
    /\ lastCrashTime = activeCrash[1].timestamp
    /\ constructed = <<lastCrashTime>>

(* C31: with the interval served when it is due, a crash is active for at   *)
(* most 15 periods after lastCrashTime, the time its session started, which *)
(* is within the cooldown; so a sample that is not safe and arrives while a *)
(* crash is active, a minor one included, arrives within the cooldown, and  *)
(* is logged nowhere and constructs nothing.                                *)
C31_SessionWithinCooldown ==
    /\ [](activeCrash # Null
          => /\ lastCrashTime = activeCrash[1].timestamp
             /\ now - lastCrashTime <= 15 * TickMs
             /\ 15 * TickMs < COOLDOWN)
    /\ [][(/\ lastOp' = "sample"
           /\ Armed
           /\ SampleSeverity(sensorData') # "safe")
          => /\ now' - lastCrashTime <= COOLDOWN
             /\ crashHistory' = crashHistory
             /\ pending' = EmptyPending
             /\ constructed' = constructed
             /\ lastCrashTime' = lastCrashTime
             /\ activeCrash' = activeCrash]_vars

C31_Witness ==
    /\ lastOp = "sample"
    /\ Armed
    /\ isMonitoring
    /\ fx.suppressed
    /\ SampleSeverity(sensorData) = "minor"
    /\ countdown = 1
    /\ now - lastCrashTime = 14 * TickMs

(* C32: the countdown is a whole number from 0 to 15 in every state, and    *)
(* while a session is armed it is at least 1 and at most what the session   *)
(* started with, 10 when critical and 15 otherwise.                         *)
C32_CountdownRange ==
    /\ countdown \in 0..15
    /\ Armed => /\ countdown >= 1
                /\ countdown <= SessionLength(activeCrash[1])
                /\ SessionLength(activeCrash[1]) \in {10, 15}

C32_Witness ==
    /\ Armed
    /\ interval.live
    /\ countdown = 1
    /\ SessionLength(activeCrash[1]) = CriticalCountdown
    /\ now - activeCrash[1].timestamp > COOLDOWN

(* Every entry logged or queued for the log *)
Logged == Range(crashHistory) \cup Range(pending.history)

(* C33: an entry with reported = TRUE has type moderate or severe and is of *)
(* an event handed to onEmergencyTrigger, whose session was not cancelled:  *)
(* no entry says reported = FALSE of the same event; an entry of type minor *)
(* says reported = FALSE; and no more entries with reported = TRUE have     *)
(* been appended (one with each report built) than onEmergencyTrigger calls *)
(* made.                                                                    *)
C33_ReportedMeansTriggered ==
    /\ \A e \in Logged :
          /\ e.reported
                => /\ e.type \in {"moderate", "severe"}
                   /\ e.id \in Range(dispatched)
                   /\ \A c \in Logged : c.id = e.id => c.reported
          /\ e.type = "minor" => ~e.reported
    /\ Len(reports) <= Len(dispatched)

(* Only the pause of the monitoring is queued *)
PauseQueued == pending = [EmptyPending EXCEPT !.monitoring = <<FALSE>>]

(* C34: a step that ends with the monitoring paused analyses no sample,     *)
(* constructs no event and leaves lastCrashTime as it is; the click that    *)
(* pauses and the render that follows leave the active crash, its dialog,   *)
(* its countdown and its interval as they are; a tick of a paused session   *)
(* takes 1 off its countdown and, at 1, triggers; and a session that is     *)
(* paused ends.                                                             *)
C34_PausedMonitoring ==
    /\ [][/\ ~isMonitoring'
             => UNCHANGED <<impactAnalysis, constructed, lastCrashTime>>
          /\ (lastOp' = "toggle" /\ isMonitoring /\ pending = EmptyPending)
             => /\ PauseQueued'
                /\ UNCHANGED <<activeCrash, showCrashDialog, countdown,
                               interval>>
          /\ (lastOp = "toggle" /\ PauseQueued /\ lastOp' = "render")
             => /\ ~isMonitoring'
                /\ UNCHANGED <<activeCrash, showCrashDialog, countdown,
                               interval>>
          /\ (/\ lastOp' = "tick"
              /\ ~isMonitoring
              /\ Armed
              /\ pending'.countdown # <<>>
              /\ pending'.countdown[1].kind = "set")
             => /\ pending'.countdown[1].value = countdown - 1
                /\ countdown = 1 <=> fx'.dispatch = 1
          /\ (/\ lastOp = "tick"
              /\ ~isMonitoring
              /\ activeCrash # Null
              /\ pending.countdown # <<>>
              /\ pending.countdown[1].kind = "updater"
              /\ lastOp' = "render")
             => /\ countdown' = countdown - 1
                /\ countdown = 1 <=> fx'.dispatch = 1]_vars
    /\ (activeCrash # Null /\ ~isMonitoring) ~> (activeCrash = Null)

C34_Witness ==
    /\ lastOp = "tick"
    /\ ~isMonitoring
    /\ activeCrash # Null
    /\ countdown = 1
    /\ fx.dispatch = 1
    /\ dispatched = <<activeCrash[1].id>>
    /\ impactAnalysis.severity = "critical"
    /\ SampleSeverity(sensorData) = "minor"
    /\ now = activeCrash[1].timestamp + CriticalCountdown * TickMs

(* C35: the direction analyzeImpact returns is one of Left, Right, Forward, *)
(* Backward, Upward and Downward for every reading, and Left for the        *)
(* reading with all three axes 0; None is what the component shows before   *)
(* it has analysed a reading.                                               *)
C35_NeverNone ==
    /\ probe.fn = "analyzeImpact" =>
          LET accel == probe.input[1].acceleration
              direction == probe.output[1].impactDirection
          IN  /\ direction \in {"Left", "Right", "Forward", "Backward",
                                "Upward", "Downward"}
              /\ direction # "None"
              /\ accel = Acc(0, 0, 0) => direction = "Left"
    /\ sensorData = Null => impactAnalysis.impactDirection = "None"

C35_Witness ==
    /\ probe.fn = "analyzeImpact"
    /\ probe.input[1].acceleration = Acc(0, 0, 0)
    /\ probe.output[1].impactDirection = "Left"
    /\ probe.output[1].severity = "safe"

(* C36: the event constructed at a detection has a speed exactly when the   *)
(* component holds a location snapshot whose speed is neither null nor 0,   *)
(* and the speed is then 3.6 times the speed of the snapshot (36 hundredths *)
(* of a km/h for each tenth of a m/s); the event detected at speed 0 has no *)
(* speed and its report prints speedAtImpact as "Unknown".                  *)
C36_Speed ==
    probe.fn \in {"monitorEffect", "triggerEmergency"} =>
        LET snapshot == probe.input[1].locationData
            crash == probe.output[1].crash
            crashReport == probe.output[1].report
            moving == /\ snapshot # Null
                      /\ snapshot[1].speed # Null
                      /\ snapshot[1].speed[1] # 0
        IN  /\ crash.speed # Null <=> moving
            /\ moving => crash.speed[1] = 36 * snapshot[1].speed[1]
            /\ crash.timestamp = probe.input[1].now
            /\ (crashReport # Null /\ ~moving)
                  => crashReport[1].speedAtImpact = [text |-> "Unknown"]
            /\ (crashReport # Null /\ moving)
                  => crashReport[1].speedAtImpact.text = "toFixed(1)"

C36_Witness ==
    /\ probe.fn = "triggerEmergency"
    /\ probe.input[1].locationData # Null
    /\ probe.input[1].locationData[1].speed = Some(0)
    /\ probe.output[1].crash.location # Null
    /\ probe.output[1].crash.speed = Null
    /\ probe.output[1].report[1].speedAtImpact = [text |-> "Unknown"]
    /\ probe.output[1].report[1].reportId = probe.output[1].crash.id

====
